---- MODULE Spec2Model ----
(***************************************************************************)
(* Multitok (src/multitok.py): a thread pool maps process_tt_link over the *)
(* lines of links.txt.  Each task consults the url cache, runs the chosen  *)
(* download_v1/v2/v3 strategy (bootstrap GET, resolution POST, one GET and *)
(* one downloader() call per file) and then either saves the link in the   *)
(* cache or appends a line to errors.txt.                                  *)
(*                                                                         *)
(* The network is the environment: every request draws the server's        *)
(* behaviour (a ServerScript) and every mirror page draws its content (a   *)
(* MirrorAnswer).  The retry loop of the mounted urllib3 Retry object is   *)
(* computed attempt by attempt by Urlopen.                                 *)
(***************************************************************************)
EXTENDS Integers, Sequences, FiniteSets, TLC

\* ------------------------------------------------------------- bounds ----
MaxLinks == 2        \* lines of the links file
MaxCand  == 3        \* download links a mirror page can list
Workers  == 2        \* --workers

\* ------------------------------------------------- program constants ----
RetryTotal == 10     \* Retry(total = 10)
WatermarkIndex == 2  \* download_link_index = 2 if args.watermark else 0

status_forcelist == {429, 500, 502, 503, 504}

\* urllib3 retries a status only for these methods (Retry.DEFAULT_ALLOWED_METHODS,
\* the default mount_retry_logic_to_session leaves in place): POST is not one.
allowed_methods == {"HEAD", "GET", "PUT", "DELETE", "OPTIONS", "TRACE"}

\* A response "status" of ConnErr stands for a connection that could not be
\* made (requests raises ConnectionError once the retries are spent).
ConnErr == 0

\* ---------------------------------------------------------------- URLs ----
\* A URL by the parts the two regular expressions of extract_video_id look at:
\* the host, the @handle ("" when there is none), the /video|photo/ segment
\* ("" when there is none) with its numeric id, and the query string.
Url(host, user, kind, id, query) ==
    [host |-> host, user |-> user, kind |-> kind, id |-> id, query |-> query]

LinkVideo   == Url("www.tiktok.com", "a", "video", "1", "")
LinkPhoto   == Url("www.tiktok.com", "a", "photo", "2", "")
LinkNoUser  == Url("www.tiktok.com", "", "video", "1", "")
LinkShort   == Url("vm.tiktok.com", "", "", "ZM1", "")
HomePage    == Url("www.tiktok.com", "", "", "", "")

\* The lines a links file is drawn from: a video, a photo post, a short link
\* and a line that is no TikTok link.
Links == {LinkVideo, LinkPhoto, LinkShort, LinkNoUser}

\* Where a GET of a vm.tiktok.com link can end (response.url).
ResolveTargets == {LinkVideo, HomePage}

\* re.search(r"@([A-Za-z0-9_.]+)", url).group(0): the handle with its "@".
username_match(url) == IF url.user = "" THEN <<>> ELSE <<"@", url.user>>

\* re.search(r"/(video|photo)/(\d+)", url): groups 1 and 2.
content_type_match(url) ==
    IF url.kind \in {"video", "photo"} /\ url.id # ""
    THEN <<url.kind, url.id>> ELSE <<>>

NoIdent == [username |-> <<>>, video_id |-> "", content_type |-> ""]

\* The regular-expression half of extract_video_id: the triple, or an
\* AttributeError when either search returned None.
ParseId(url) ==
    IF username_match(url) = <<>> \/ content_type_match(url) = <<>>
    THEN [ok |-> FALSE, ident |-> NoIdent]
    ELSE [ok |-> TRUE,
          ident |-> [username |-> username_match(url),
                     video_id |-> content_type_match(url)[2],
                     content_type |-> content_type_match(url)[1]]]

\* ------------------------------------------------------ the transport ----
\* What a server does with one request: it answers the statuses of seq to the
\* first Len(seq) attempts, and final to every attempt after them.
Finals == {200, 404, 503, ConnErr}

\* A server that answers every attempt alike.
SteadyScripts == [seq : {<<>>}, final : Finals]

\* A server that first answers a run of transient statuses: three 503s, or
\* each status of the forcelist twice (RetryTotal of them).
TransientRuns ==
    { <<503, 503, 503>>,
      <<503, 429, 500, 502, 504, 503, 429, 500, 502, 504>> }

FlakyScripts == SteadyScripts \cup [seq : TransientRuns, final : Finals]

Resp(s, attempt) == IF attempt <= Len(s.seq) THEN s.seq[attempt] ELSE s.final

\* The Retry object mounted on the session, and the one a bare requests.get /
\* requests.post runs under (requests' DEFAULT_RETRIES = 0, no forcelist).
sess_retries  == [total |-> RetryTotal, status_forcelist |-> status_forcelist]
plain_retries == [total |-> 0, status_forcelist |-> {}]

\* Retry.is_retry(method, status_code)
is_retry(retries, method, status) ==
    /\ method \in allowed_methods
    /\ status \in retries.status_forcelist

\* A retry budget that is spent one retry early.
is_exhausted_early(total) == total <= 0

\* Retry.increment + Retry.is_exhausted: one retry is spent; the request is
\* abandoned when the count falls below zero.
is_exhausted(total) == total < 0

\* HTTPAdapter.send -> urlopen: attempt number `attempt` under `total` retries
\* left.  The result is the response handed to the caller, or the exception
\* requests raises, with the number of attempts made.
RECURSIVE Urlopen(_, _, _, _, _)
Urlopen(retries, method, s, total, attempt) ==
    LET r == Resp(s, attempt) IN
    IF r = ConnErr
    THEN IF is_exhausted(total - 1)
         THEN [outcome |-> "ConnectionError", status |-> r, attempts |-> attempt]
         ELSE Urlopen(retries, method, s, total - 1, attempt + 1)
    ELSE IF is_retry(retries, method, r)
    THEN IF is_exhausted(total - 1)
         THEN [outcome |-> "RetryError", status |-> r, attempts |-> attempt]
         ELSE Urlopen(retries, method, s, total - 1, attempt + 1)
    ELSE [outcome |-> "response", status |-> r, attempts |-> attempt]

\* sess.get / sess.post of a session prepared by mount_retry_logic_to_session.
SessRequest(method, s) == Urlopen(sess_retries, method, s, sess_retries.total, 1)

\* requests.get / requests.post outside any session.
PlainRequest(method, s) == Urlopen(plain_retries, method, s, plain_retries.total, 1)

Request(via, method, s) ==
    [via |-> via, method |-> method, script |-> s,
     res |-> IF via = "sess" THEN SessRequest(method, s) ELSE PlainRequest(method, s)]

Raises(rq) == rq.res.outcome # "response"

\* ------------------------------------------------------- configuration ----
\* argparse's namespace (the options the pipeline reads).
AllArgs ==
    [api_version   : {"v1", "v2", "v3"},
     watermark     : BOOLEAN,
     save_metadata : BOOLEAN,
     skip_existing : BOOLEAN,
     no_folders    : BOOLEAN,
     workers       : 1..Workers]

\* The command lines explored: every strategy with either watermark choice
\* under the default downloader options; under the default strategy (v3, no
\* watermark) every combination of --save-metadata and --skip-existing, and
\* --no-folders.
ArgsSet ==
    {a \in AllArgs :
        \/ ~a.save_metadata /\ ~a.skip_existing /\ ~a.no_folders
        \/ a.api_version = "v3" /\ ~a.watermark /\ ~a.no_folders
        \/ a.api_version = "v3" /\ ~a.watermark /\ ~a.save_metadata /\ ~a.skip_existing}

\* ---------------------------------------------------------- the mirror ----
\* What the resolution response holds: n download links (anchors or images);
\* for tmate (v1) whether the body is JSON at all and its 'error' member.
MirrorAnswers(api) ==
    IF api = "v1"
    THEN [n : 0..MaxCand, json : BOOLEAN, error : BOOLEAN]
    ELSE [n : 0..MaxCand, json : {TRUE}, error : {FALSE}]

Unavailable == "Post is either private or removed."

\* The part of download_v1/v2/v3 between the resolution response and the first
\* download: the exception it raises ("" for none) and the number of files it
\* goes on to download.
Select(api, watermark, content_type, a) ==
    LET index == IF watermark THEN WatermarkIndex ELSE 0 IN
    IF api = "v1" /\ ~a.json THEN [ex |-> "JSONDecodeError", count |-> 0]
    ELSE IF api = "v1" /\ a.error THEN [ex |-> Unavailable, count |-> 0]
    ELSE IF content_type = "video"
    THEN CASE api = "v3" ->
                IF a.n = 0 THEN [ex |-> Unavailable, count |-> 0]
                ELSE IF index >= a.n THEN [ex |-> "IndexError", count |-> 0]
                ELSE [ex |-> "", count |-> 1]
           [] api = "v2" ->
                \* a[1] is the clean link, a[3] the watermarked one
                IF a.n < 1 /\ a.n < 3 THEN [ex |-> Unavailable, count |-> 0]
                ELSE IF index >= a.n THEN [ex |-> "MissingSchema", count |-> 0]
                ELSE [ex |-> "", count |-> 1]
           [] OTHER ->
                IF index >= a.n THEN [ex |-> "IndexError", count |-> 0]
                ELSE [ex |-> "", count |-> 1]
    ELSE [ex |-> "", count |-> a.n]

\* ------------------------------------------------------ the file system ----
\* A path is its directory (components under --output-dir), the parts of the
\* base name that the code joins with "_", and the extension.
Path(dir, base, ext) == [dir |-> dir, base |-> base, ext |-> ext]

\* downloader, lines 117-129: the destination of one file.
file_path(a, username, file_name, extension) ==
    IF a.no_folders
    THEN Path(<<>>, <<username>> \o file_name, extension)
    ELSE Path(<<username>>, file_name, extension)

\* A metadata directory under the output root in either layout.
metadata_file_path_root(a, username, file_name) ==
    IF a.no_folders
    THEN Path(<<"metadata">>, <<username>> \o file_name, "json")
    ELSE Path(<<"metadata">>, file_name, "json")

\* downloader, lines 147-156: the destination of the metadata document.
metadata_file_path(a, username, file_name) ==
    IF a.no_folders
    THEN Path(<<"metadata">>, <<username>> \o file_name, "json")
    ELSE Path(<<username, "metadata">>, file_name, "json")

\* The file system is a function from the paths that exist to their content.
NoFiles == [p \in {} |-> ""]

\* open(path, 'wb') ... write: the file is created or overwritten with data.
WriteFile(fs, path, data) ==
    [p \in DOMAIN fs \cup {path} |-> IF p = path THEN data ELSE fs[p]]

\* A file system in which no path is ever found.
Exists_never(fs, path) == FALSE

\* os.path.exists(path)
Exists(fs, path) == path \in DOMAIN fs

\* The body of the response download_vN fetched for task i: what
\* response.iter_content yields.
Body(i) == <<"body", i>>

\* What json.dump writes of the metadata extract_metadata(link) returned.
MetadataDoc(link) == <<"metadata", link>>

\* ---------------------------------------------------------------- state ----
VARIABLES
    args,          \* the parsed command line
    tiktok_links,  \* the lines of the links file
    url_cache,     \* UrlCache.db: the links marked done (url_cache.db)
    files,         \* the files under --output-dir: path -> content
    errors_txt,    \* the lines of errors.txt
    queue,         \* the executor's work queue: indexes into tiktok_links
    task,          \* index -> the state of process_tt_link(tiktok_links[index])
    main_pc,       \* the main thread: "map" inside the with block, then "exit"
    net            \* the servers' repertoire: the scripts a request can meet

vars == <<args, tiktok_links, url_cache, files, errors_txt, queue, task, main_pc, net>>

Tasks == 1..Len(tiktok_links)

\* A task that has not started.  pc is the place in process_tt_link /
\* download_vN; status is the Link's state; the rest are the locals of the call
\* (ident, count, index, response, exception) and what the call has done so far.
NewTask ==
    [pc        |-> "queued",
     status    |-> "Pending",
     worker    |-> 0,          \* the pool thread running the call (0: none)
     hit       |-> FALSE,      \* what url_cache.contains(link) answered
     calls     |-> 0,          \* calls of download_function(link) for this entry
     ident     |-> NoIdent,    \* extract_video_id(link) of download_vN
     count     |-> 0,          \* files download_vN goes on to download
     index     |-> 0,          \* files it is done with
     req       |-> <<>>,       \* the request the last step made, if any
     exception |-> "",         \* the exception download_vN caught
     requests  |-> 0,          \* requests issued so far
     wrote     |-> {},         \* paths written so far
     reads     |-> 0,          \* body streams read so far
     resolutions |-> 0,        \* short-link resolution GETs of this attempt
     empty     |-> FALSE,      \* the mirror's page listed no download link
     unsound   |-> FALSE]      \* some saved body came from a non-200 response

\* The links that match both patterns as they stand.
WellFormed(l) == ParseId(l).ok

Inputs == UNION {[1..n -> Links] : n \in 1..MaxLinks}

\* What every run starts from, given its command line, links file and network.
Start ==
    \* what earlier runs left in url_cache.db: only a link whose download can
    \* succeed is ever saved
    /\ url_cache \in SUBSET {tiktok_links[i] : i \in DOMAIN tiktok_links}
    /\ \A l \in url_cache : WellFormed(l) \/ l.host = "vm.tiktok.com"
    /\ files = NoFiles
    /\ errors_txt = <<>>
    /\ queue = [i \in 1..Len(tiktok_links) |-> i]
    /\ task = [i \in 1..Len(tiktok_links) |-> NewTask]
    /\ main_pc = "map"

\* Runs of up to MaxLinks links against servers that answer every attempt of
\* a request alike.
Init ==
    /\ args \in ArgsSet
    /\ tiktok_links \in Inputs
    /\ net = SteadyScripts
    /\ Start

\* -------------------------------------------------------------- actions ----
Link(i) == tiktok_links[i]

\* The calls of process_tt_link that a worker thread is inside.
Running == {i \in Tasks : task[i].pc \notin {"queued", "done"}}

\* The locals of a call that is over are gone; what it did is kept.
Ended(t, status) ==
    [t EXCEPT !.pc = "done", !.status = status, !.req = <<>>,
              !.ident = NoIdent, !.count = 0, !.index = 0, !.exception = "",
              !.resolutions = 0, !.worker = 0]

\* The threads of ThreadPoolExecutor(max_workers=args.workers) that are not
\* inside a call.  The threads are interchangeable: the one that takes the
\* next item is taken to be the idle thread of the least number.
IdleWorkers == (1..args.workers) \ {task[i].worker : i \in Running}

Min(S) == CHOOSE x \in S : \A y \in S : x <= y

\* A pool that starts a thread for every item, whatever max_workers.
Dispatch_unbounded ==
    /\ main_pc = "map"
    /\ queue # <<>>
    /\ queue' = Tail(queue)
    /\ task' = [task EXCEPT ![Head(queue)].pc = "check",
                            ![Head(queue)].worker = Cardinality(Running) + 1]
    /\ UNCHANGED <<args, tiktok_links, url_cache, files, errors_txt, main_pc, net>>

\* ThreadPoolExecutor's worker loop: one of the max_workers threads, when it is
\* free, takes the item at the head of the work queue (executor.map submitted
\* them in input order).
Dispatch ==
    /\ main_pc = "map"
    /\ queue # <<>>
    /\ IdleWorkers # {}
    /\ queue' = Tail(queue)
    /\ task' = [task EXCEPT ![Head(queue)].pc = "check",
                            ![Head(queue)].worker = Min(IdleWorkers)]
    /\ UNCHANGED <<args, tiktok_links, url_cache, files, errors_txt, main_pc, net>>

\* A cache lookup that never finds a link.
contains_never(db, url) == FALSE

\* UrlCache.contains
contains(db, url) == url \in db

\* A store whose write is lost.
save_lost(db, url) == db

\* UrlCache.save
save(db, url) == db \cup {url}

\* The task's record of whether its link was in the cache when it looked.
Seen(t, i) == [t EXCEPT !.hit = Link(i) \in url_cache]

\* process_tt_link, line 334: a link found in the cache is left alone.
CheckCache(i) ==
    /\ task[i].pc = "check"
    /\ IF contains(url_cache, Link(i))
       THEN task' = [task EXCEPT ![i] = Ended(Seen(@, i), "Skipped")]
       ELSE task' = [task EXCEPT ![i] =
                        [Seen(@, i) EXCEPT !.pc = "extract", !.status = "Dispatched",
                                           !.calls = @ + 1]]
    /\ UNCHANGED <<args, tiktok_links, url_cache, files, errors_txt, queue, main_pc, net>>

\* extract_video_id(url): the requests it makes, the exception it raises ("" for
\* none) and the triple it returns.  A vm.tiktok.com link is first resolved with
\* a bare requests.get, whose final URL `target` replaces it.
extract_video_id(url, s, target) ==
    IF url.host = "vm.tiktok.com"
    THEN LET rq == Request("plain", "GET", s) IN
         IF Raises(rq)
         THEN [requests |-> 1, ex |-> rq.res.outcome, ident |-> NoIdent]
         ELSE [requests |-> 1,
               ex |-> IF ParseId(target).ok THEN "" ELSE "AttributeError",
               ident |-> ParseId(target).ident]
    ELSE [requests |-> 0,
          ex |-> IF ParseId(url).ok THEN "" ELSE "AttributeError",
          ident |-> ParseId(url).ident]

\* What the resolution of a short link can draw; a link that is not one makes
\* no request, and draws nothing.
Resolutions(url) ==
    IF url.host = "vm.tiktok.com"
    THEN {<<s, g>> : s \in {[seq |-> <<>>, final |-> f] : f \in {200, ConnErr}},
                     g \in ResolveTargets}
    ELSE {<<[seq |-> <<>>, final |-> 200], url>>}

\* download_vN, line 177/227/281: the identity is extracted before the try
\* block, so an exception here leaves download_vN and process_tt_link.
ExtractId(i) ==
    /\ task[i].pc = "extract"
    /\ \E r \in Resolutions(Link(i)) :
         LET e == extract_video_id(Link(i), r[1], r[2]) IN
         IF e.ex # ""
         THEN task' = [task EXCEPT ![i] =
                    Ended([@ EXCEPT !.requests = @ + e.requests], "Raised")]
         ELSE task' = [task EXCEPT ![i].pc = "boot",
                                   ![i].ident = e.ident,
                                   ![i].requests = @ + e.requests,
                                   ![i].resolutions = @ + e.requests]
    /\ UNCHANGED <<args, tiktok_links, url_cache, files, errors_txt, queue, main_pc, net>>

\* except Exception as ex: return False, ex
Caught(t, rq, ex) ==
    [t EXCEPT !.pc = "ret", !.req = rq, !.exception = ex]

\* download_vN, first request in the try block: the mirror's landing page,
\* through the session.
Bootstrap(i) ==
    /\ task[i].pc = "boot"
    /\ \E s \in net :
         LET rq == Request("sess", "GET", s)
             t == [task[i] EXCEPT !.requests = @ + 1] IN
         task' = [task EXCEPT ![i] =
                    IF Raises(rq) THEN Caught(t, <<rq>>, rq.res.outcome)
                    ELSE [t EXCEPT !.pc = "post", !.req = <<rq>>]]
    /\ UNCHANGED <<args, tiktok_links, url_cache, files, errors_txt, queue, main_pc, net>>

\* How each strategy posts to the resolution endpoint: download_v3 calls
\* requests.post, download_v1 and download_v2 call sess.post.
post_via(api) == IF api = "v3" THEN "plain" ELSE "sess"

\* download_vN: the resolution POST and the choice of what to download.
Resolve(i) ==
    /\ task[i].pc = "post"
    /\ \E s \in net, a \in MirrorAnswers(args.api_version) :
         LET rq == Request(post_via(args.api_version), "POST", s)
             t == [task[i] EXCEPT !.requests = @ + 1,
                                  !.empty = ~Raises(rq) /\ a.json /\ a.n = 0]
             c == Select(args.api_version, args.watermark,
                         task[i].ident.content_type, a) IN
         task' = [task EXCEPT ![i] =
                    IF Raises(rq) THEN Caught(t, <<rq>>, rq.res.outcome)
                    ELSE IF c.ex # "" THEN Caught(t, <<rq>>, c.ex)
                    ELSE IF c.count = 0 THEN [t EXCEPT !.pc = "ret", !.req = <<rq>>]
                    ELSE [t EXCEPT !.pc = "get", !.req = <<rq>>,
                                   !.count = c.count, !.index = 0]]
    /\ UNCHANGED <<args, tiktok_links, url_cache, files, errors_txt, queue, main_pc, net>>

\* download_vN: sess.get(download_link, stream=True) of the file at `index`.
Fetch(i) ==
    /\ task[i].pc = "get"
    /\ \E s \in net :
         LET rq == Request("sess", "GET", s)
             t == [task[i] EXCEPT !.requests = @ + 1] IN
         task' = [task EXCEPT ![i] =
                    IF Raises(rq) THEN Caught(t, <<rq>>, rq.res.outcome)
                    ELSE [t EXCEPT !.pc = "dl", !.req = <<rq>>]]
    /\ UNCHANGED <<args, tiktok_links, url_cache, files, errors_txt, queue, main_pc, net>>

\* str(index) of the f-string f"{file_name}_{index}"
IndexStr(n) == <<"0", "1", "2", "3", "4", "5">>[n + 1]

\* What a failed extract_metadata(link) raises (a requests exception, a
\* TypeError of json.loads(None), a KeyError), by one name.
MetadataError == "MetadataError"

\* downloader(file_name, link, response, extension): the file system it
\* leaves, the exception it raises ("" for none), the requests it makes
\* (resolutions: those of extract_video_id), the paths it writes and the
\* number of times it reads the body stream of response.  It extracts the
\* identity of the link again (r: what a short link resolves to this time); io
\* and meta are whether the write and the metadata fetch-and-parse go through.
downloader(a, fs, file_name, link, response, extension, r, io, meta) ==
    LET e == extract_video_id(link, r[1], r[2])
        username == e.ident.username[2]
        path == file_path(a, username, file_name, extension)
        mpath == metadata_file_path(a, username, file_name)
        written == WriteFile(fs, path, response)
        out == [fs |-> fs, ex |-> "", requests |-> e.requests,
                resolutions |-> e.requests, wrote |-> {}, reads |-> 0]
    IN
    IF e.ex # ""
    THEN [out EXCEPT !.ex = e.ex]
    ELSE IF Exists(fs, path) /\ a.skip_existing
    THEN out
    ELSE IF io # "ok"
    THEN [out EXCEPT !.ex = "OSError"]
    ELSE IF a.save_metadata /\ e.ident.content_type # "photo"
    THEN IF meta # "ok"
         THEN [out EXCEPT !.fs = written, !.ex = MetadataError,
                          !.requests = @ + 1, !.wrote = {path}, !.reads = 1]
         ELSE [out EXCEPT !.fs = WriteFile(written, mpath, MetadataDoc(link)),
                          !.requests = @ + 1, !.wrote = {path, mpath}, !.reads = 1]
    ELSE [out EXCEPT !.fs = written, !.wrote = {path}, !.reads = 1]

\* The file name and extension download_vN passes for the file at `index`.
FileName(ident, index) ==
    IF ident.content_type = "video" THEN <<ident.video_id>>
    ELSE <<ident.video_id, IndexStr(index)>>

Extension(ident) == IF ident.content_type = "video" THEN "mp4" ELSE "jpeg"

\* download_vN: downloader(...) on the response just fetched, then the next
\* file of the loop or the end of the try block.
Download(i) ==
    /\ task[i].pc = "dl"
    /\ \E r \in Resolutions(Link(i)), io \in {"ok", "fail"}, meta \in {"ok", "fail"} :
         LET t == task[i]
             status == t.req[1].res.status
             d == downloader(args, files, FileName(t.ident, t.index), Link(i),
                             Body(i), Extension(t.ident), r, io, meta)
             u == [t EXCEPT !.requests = @ + d.requests,
                            !.resolutions = @ + d.resolutions,
                            !.reads = @ + d.reads,
                            !.wrote = @ \cup d.wrote,
                            !.unsound = @ \/ (d.wrote # {} /\ status # 200)]
         IN
         /\ files' = d.fs
         /\ task' = [task EXCEPT ![i] =
                IF d.ex # "" THEN Caught(u, <<>>, d.ex)
                ELSE IF t.index + 1 < t.count
                THEN [u EXCEPT !.pc = "get", !.req = <<>>, !.index = @ + 1]
                ELSE [u EXCEPT !.pc = "ret", !.req = <<>>, !.index = @ + 1]]
    /\ UNCHANGED <<args, tiktok_links, url_cache, errors_txt, queue, main_pc, net>>

\* open("errors.txt", 'a') ... write(f'{link} - {str(exception)}\n')
ErrorLine(link, exception) == <<link, " - ", exception, "\n">>

\* A process_tt_link that opens errors.txt for writing, not for appending.
Finish_truncates(i) ==
    /\ task[i].pc = "ret"
    /\ IF task[i].exception = ""
       THEN /\ url_cache' = save(url_cache, Link(i))
            /\ task' = [task EXCEPT ![i] = Ended(@, "Succeeded")]
            /\ UNCHANGED errors_txt
       ELSE /\ errors_txt' = <<ErrorLine(Link(i), task[i].exception)>>
            /\ task' = [task EXCEPT ![i] = Ended(@, "Failed")]
            /\ UNCHANGED url_cache
    /\ UNCHANGED <<args, tiktok_links, files, queue, main_pc, net>>

\* An orchestrator that submits a failed link again.
Finish_requeues(i) ==
    /\ task[i].pc = "ret"
    /\ IF task[i].exception = ""
       THEN /\ url_cache' = save(url_cache, Link(i))
            /\ task' = [task EXCEPT ![i] = Ended(@, "Succeeded")]
            /\ UNCHANGED <<errors_txt, queue>>
       ELSE /\ errors_txt' = Append(errors_txt, ErrorLine(Link(i), task[i].exception))
            /\ task' = [task EXCEPT ![i] =
                           [Ended(@, "Failed") EXCEPT !.pc = "queued"]]
            /\ queue' = Append(queue, i)
            /\ UNCHANGED url_cache
    /\ UNCHANGED <<args, tiktok_links, files, main_pc, net>>

\* A process_tt_link whose failure cancels the work still queued.
Finish_cancels(i) ==
    /\ task[i].pc = "ret"
    /\ IF task[i].exception = ""
       THEN /\ url_cache' = save(url_cache, Link(i))
            /\ task' = [task EXCEPT ![i] = Ended(@, "Succeeded")]
            /\ UNCHANGED <<errors_txt, queue>>
       ELSE /\ errors_txt' = Append(errors_txt, ErrorLine(Link(i), task[i].exception))
            /\ task' = [task EXCEPT ![i] = Ended(@, "Failed")]
            /\ queue' = <<>>
            /\ UNCHANGED url_cache
    /\ UNCHANGED <<args, tiktok_links, files, main_pc, net>>

\* process_tt_link, lines 335-344: download_function has returned
\* (success, exception); the link is saved, or the error is logged.
Finish(i) ==
    /\ task[i].pc = "ret"
    /\ IF task[i].exception = ""
       THEN /\ url_cache' = save(url_cache, Link(i))
            /\ task' = [task EXCEPT ![i] = Ended(@, "Succeeded")]
            /\ UNCHANGED errors_txt
       ELSE /\ errors_txt' = Append(errors_txt, ErrorLine(Link(i), task[i].exception))
            /\ task' = [task EXCEPT ![i] = Ended(@, "Failed")]
            /\ UNCHANGED url_cache
    /\ UNCHANGED <<args, tiktok_links, files, queue, main_pc, net>>

\* The with block of the executor ends: shutdown(wait=True) returns once the
\* queue is empty and every thread is idle; nothing reads the map's results.
Shutdown ==
    /\ main_pc = "map"
    /\ queue = <<>>
    /\ Running = {}
    /\ main_pc' = "exit"
    /\ UNCHANGED <<args, tiktok_links, url_cache, files, errors_txt, queue, task, net>>

Next ==
    \/ Dispatch
    \/ \E i \in Tasks : CheckCache(i)
    \/ \E i \in Tasks : ExtractId(i)
    \/ \E i \in Tasks : Bootstrap(i)
    \/ \E i \in Tasks : Resolve(i)
    \/ \E i \in Tasks : Fetch(i)
    \/ \E i \in Tasks : Download(i)
    \/ \E i \in Tasks : Finish(i)
    \/ Shutdown

Spec == Init /\ [][Next]_vars

\* Runs of a single link, one thread, against servers that may answer a run
\* of transient statuses before they settle: the retry loop at work.
RetryInit ==
    /\ args \in {a \in ArgsSet : a.workers = 1 /\ ~a.save_metadata
                                 /\ ~a.skip_existing /\ ~a.no_folders}
    /\ tiktok_links \in [1..1 -> {LinkVideo, LinkPhoto}]
    /\ net = FlakyScripts
    /\ Start

RetrySpec == RetryInit /\ [][Next]_vars

\* Runs of up to MaxLinks links on one thread under the default strategy, with
\* every combination of --save-metadata, --skip-existing and --no-folders.
SerialInit ==
    /\ args \in {a \in AllArgs : a.workers = 1 /\ a.api_version = "v3" /\ ~a.watermark}
    /\ tiktok_links \in Inputs
    /\ net = SteadyScripts
    /\ Start

SerialSpec == SerialInit /\ [][Next]_vars

\* The process is killed inside the with block: its threads, their calls and
\* the work queue are gone; what is on disk (url_cache.db, the files,
\* errors.txt) stays.  What the calls that were over had done is kept.
Crash ==
    /\ main_pc = "map"
    /\ main_pc' = "crashed"
    /\ queue' = <<>>
    /\ task' = [i \in Tasks |->
                  IF task[i].pc = "done" THEN task[i]
                  ELSE [NewTask EXCEPT !.pc = "dead", !.status = "Interrupted"]]
    /\ UNCHANGED <<args, tiktok_links, url_cache, files, errors_txt, net>>

CrashNext == Next \/ Crash

\* The runs of SerialSpec, any of which may be killed at any point.
CrashSpec == SerialInit /\ [][CrashNext]_vars

\* ------------------------------------------------------------ properties ----
RunDone == main_pc = "exit"

\* The lines of errors.txt about link l.
LinesOf(l) == {k \in DOMAIN errors_txt : errors_txt[k][1] = l}

\* The requests a task has in hand that went through the prepared session.
SessRequests ==
    {rq \in UNION {{task[i].req[k] : k \in DOMAIN task[i].req} : i \in Tasks} :
        rq.via = "sess"}

\* C1: a Link that is in the cache when process_tt_link examines it is Skipped:
\* the task ends at once, having made no request and written no file; a run
\* in which every Link was found in the cache leaves no file and no error line.
C1_CachedLinkIsSkipped ==
    /\ \A i \in Tasks :
         task[i].hit => /\ task[i].pc = "done"
                        /\ task[i].status = "Skipped"
                        /\ task[i].requests = 0
                        /\ task[i].wrote = {}
    /\ (\A i \in Tasks : task[i].hit) => files = NoFiles /\ errors_txt = <<>>

\* A finished run of two Links, both found in the cache.
C1_Witness ==
    /\ RunDone
    /\ Len(tiktok_links) = 2
    /\ \A i \in Tasks : task[i].hit /\ task[i].status = "Skipped"

\* C2: a Link is marked done only after every file it yields was downloaded:
\* download_vN returns success only with all its files done, none of them
\* the body of a failed fetch.
C2_DoneOnlyAfterAllFilesDownloaded ==
    \A i \in Tasks :
        /\ (task[i].pc = "ret" /\ task[i].exception = "")
              => task[i].index = task[i].count /\ ~task[i].unsound
        /\ task[i].status = "Succeeded" => ~task[i].unsound

\* C3: when the mirror's page lists no download link, the Link fails with the
\* content-unavailable error: nothing is written, it is not marked done and
\* the error is logged, whatever the strategy and the content type.
C3_NoCandidateIsUnavailable ==
    \A i \in Tasks :
        task[i].empty =>
            /\ task[i].wrote = {}
            /\ task[i].status # "Succeeded"
            /\ task[i].pc = "ret" => task[i].exception = Unavailable
            /\ task[i].status = "Failed" =>
                   \E k \in LinesOf(Link(i)) : errors_txt[k][3] = Unavailable

\* C4: no failure leaves process_tt_link: a Link that was not in the cache
\* ends Succeeded (saved in the cache) or Failed, and errors.txt holds one
\* line per failed task.
C4_EveryFailureIsCaught ==
    /\ \A i \in Tasks :
         (task[i].pc = "done" /\ ~task[i].hit) =>
             \/ task[i].status = "Succeeded" /\ Link(i) \in url_cache
             \/ task[i].status = "Failed" /\ LinesOf(Link(i)) # {}
    /\ \A l \in Links :
         Cardinality(LinesOf(l)) =
             Cardinality({i \in Tasks : Link(i) = l /\ task[i].status = "Failed"})

\* C5: a run over one valid video Link whose download succeeds and one
\* malformed line, under the default layout, ends with exactly the video file
\* in the author's folder, the video Link alone in the cache, and one line in
\* errors.txt, naming the malformed line.
C5_ValidAndMalformedLine ==
    (/\ RunDone
     /\ ~args.no_folders /\ ~args.save_metadata
     /\ {Link(i) : i \in Tasks} = {LinkVideo, LinkNoUser}
     /\ \E i \in Tasks : Link(i) = LinkVideo /\ task[i].status = "Succeeded")
    => /\ DOMAIN files = {Path(<<"a">>, <<"1">>, "mp4")}
       /\ url_cache = {LinkVideo}
       /\ Len(errors_txt) = 1
       /\ errors_txt[1][1] = LinkNoUser

\* The step in which task i comes to its end.
Ends(i) == task[i].pc # "done" /\ task'[i].pc = "done"

C7_EveryLinkTerminal ==
    RunDone => \A i \in Tasks : task[i].status \in {"Skipped", "Succeeded", "Failed"}

\* The server answers k statuses of the forcelist, k within the retry budget,
\* and then 200.
TransientThenOK(s) ==
    /\ Len(s.seq) \in 1..RetryTotal
    /\ \A k \in DOMAIN s.seq : s.seq[k] \in status_forcelist
    /\ s.final = 200

Recovers(rq) ==
    /\ rq.res.outcome = "response"
    /\ rq.res.status = 200
    /\ rq.res.attempts = Len(rq.script.seq) + 1

\* C8: every request through the prepared session that meets a run of
\* transient statuses followed by a 200 succeeds, with one attempt per answer
\* (3 times 503 and a 200: 4 attempts).
C8_SessionRequestRecovers ==
    \A rq \in SessRequests : TransientThenOK(rq.script) => Recovers(rq)

\* C9: a download request answered 404 is tried once and fails: its response
\* never reaches downloader, and no body of it is saved.
C9_NonTransientStatusFails ==
    \A i \in Tasks :
        /\ task[i].pc = "dl" => task[i].req[1].res.status = 200
        /\ ~task[i].unsound

\* Every attempt the retry budget allows meets a transient status.
AlwaysTransient(s) ==
    \A a \in 1..(RetryTotal + 1) : Resp(s, a) \in status_forcelist

\* C10 as stated: no request makes more than 10 attempts, and one that meets
\* transient statuses throughout fails after the 10th.
C10_AtMostTenAttempts ==
    \A rq \in SessRequests :
        /\ rq.res.attempts <= RetryTotal
        /\ (rq.method = "GET" /\ AlwaysTransient(rq.script))
              => Raises(rq) /\ rq.res.attempts = RetryTotal

\* C10: no request through the prepared session makes more than 1 + 10
\* attempts; a GET that meets transient statuses throughout is abandoned after
\* the 11th, download_vN returns the error, and the Link ends Failed.
C10_AtMostElevenAttempts ==
    /\ [](\A i \in Tasks : \A k \in DOMAIN task[i].req :
            LET rq == task[i].req[k] IN
            rq.via = "sess" =>
              /\ rq.res.attempts <= RetryTotal + 1
              /\ (rq.method = "GET" /\ AlwaysTransient(rq.script))
                    => /\ rq.res.outcome = "RetryError"
                       /\ rq.res.attempts = RetryTotal + 1
                       /\ task[i].pc = "ret"
                       /\ task[i].exception = "RetryError")
    /\ [][\A i \in Tasks :
            (task[i].pc = "ret" /\ task[i].exception # "" /\ task'[i] # task[i])
               => /\ task'[i].status = "Failed"
                  /\ errors_txt' = Append(errors_txt, ErrorLine(Link(i), task[i].exception))
                  /\ url_cache' = url_cache]_vars

\* download_vN has caught the RetryError of a GET that spent its whole budget.
C10_Witness ==
    \E i \in Tasks :
        /\ task[i].pc = "ret"
        /\ task[i].exception = "RetryError"
        /\ task[i].req[1].method = "GET"
        /\ task[i].req[1].res.attempts = RetryTotal + 1

\* The destination of the file task i is about to hand to downloader.
Dest(i) ==
    file_path(args, task[i].ident.username[2],
              FileName(task[i].ident, task[i].index), Extension(task[i].ident))

\* The step in which downloader runs for task i.
Downloads(i) == task[i].pc = "dl" /\ task'[i].pc # "dl"

\* What the extract_video_id call at the head of downloader can raise.
IdentityErrors == {"AttributeError", "ConnectionError"}

C12_MetadataFailureIsNotFatal ==
    /\ \A i \in Tasks : task[i].exception # MetadataError
    /\ \A k \in DOMAIN errors_txt : errors_txt[k][3] # MetadataError

\* C13: at most args.workers Links are being processed at once, each on a
\* thread of its own that it keeps from dispatch to its end; Links leave the
\* queue in input order, whatever the order in which they finish.
C13_BoundedPool ==
    /\ [](/\ Cardinality(Running) <= args.workers
          /\ \A i \in Running : task[i].worker \in 1..args.workers
          /\ \A i, j \in Running : i # j => task[i].worker # task[j].worker
          /\ \A i, j \in Tasks : (i < j /\ task[j].pc # "queued") => task[i].pc # "queued"
          /\ queue = SubSeq([i \in 1..Len(tiktok_links) |-> i],
                            Len(tiktok_links) - Len(queue) + 1, Len(tiktok_links)))
    /\ [][\A i \in Tasks :
            (task[i].pc \notin {"queued", "done"} /\ task'[i].pc # "done")
               => task'[i].worker = task[i].worker]_vars

\* Two threads: the second Link is over while the first is still running.
C13_Witness ==
    /\ args.workers = 2
    /\ Len(tiktok_links) = 2
    /\ task[1].pc \notin {"queued", "done"} /\ task[1].worker = 1
    /\ task[2].pc = "done" /\ task[2].status = "Succeeded"

\* C14: at any point, a kill included, url_cache.db holds every Link whose
\* save has returned, and no Link of this run whose download had not fully
\* succeeded: none saved on a page without download links, none with the
\* body of a failed fetch for a file.
C14_CacheDurability ==
    \A i \in Tasks :
        /\ task[i].status = "Succeeded" => Link(i) \in url_cache
        /\ (~task[i].hit /\ task[i].pc = "done" /\ Link(i) \in url_cache) =>
              \E j \in Tasks :
                 /\ Link(j) = Link(i) /\ task[j].status = "Succeeded"
                 /\ ~task[j].unsound /\ ~task[j].empty

Documents == {p \in DOMAIN files : p.ext = "json"}

\* The media file a metadata document is named after.
MediaOf(p) == {q \in DOMAIN files : q.ext = "mp4" /\ q.base = p.base}

\* What holds of metadata documents wherever their directory is: there are
\* none without --save-metadata, each is named after a video file, a video
\* downloaded by a Link that succeeded has exactly one, a photo has none.
DocumentPerVideo ==
    /\ Documents # {} => args.save_metadata
    /\ \A p \in Documents : MediaOf(p) # {}
    /\ \A i \in Tasks :
         LET docs == {p \in task[i].wrote : p.ext = "json"} IN
         /\ (/\ args.save_metadata /\ task[i].status = "Succeeded"
             /\ \E q \in task[i].wrote : q.ext = "mp4")
               => /\ Cardinality(docs) = 1
                  /\ \A p \in docs : \E q \in task[i].wrote : q.ext = "mp4" /\ q.base = p.base
         /\ (\E q \in task[i].wrote : q.ext = "jpeg") => docs = {}

\* C15 as stated: the metadata directory is under the output root, beside the
\* author folders in the grouped layout.
C15_MetadataBesideAuthorFolder ==
    /\ DocumentPerVideo
    /\ \A p \in Documents : p.dir = <<"metadata">>

\* C15: the metadata directory is inside the author folder in the grouped
\* layout and under the output root in the flat one: in both, it is beside the
\* media file its document is named after.
C15_MetadataInsideAuthorFolder ==
    /\ DocumentPerVideo
    /\ \A p \in Documents : \A q \in MediaOf(p) :
          /\ p.dir = q.dir \o <<"metadata">>
          /\ Len(q.dir) = IF args.no_folders THEN 0 ELSE 1

\* Grouped layout: a finished Link's video a/1.mp4 and its a/metadata/1.json.
C15_Witness ==
    /\ args.save_metadata /\ ~args.no_folders
    /\ \E i \in Tasks :
         /\ task[i].status = "Succeeded"
         /\ task[i].wrote = {Path(<<"a">>, <<"1">>, "mp4"),
                             Path(<<"a", "metadata">>, <<"1">>, "json")}

\* Task i looked for its Link in the cache and did not find it.
Missed(i) == ~task[i].hit /\ task[i].pc \notin {"queued", "check"}

\* C16: when several tasks of the same Link miss it in the cache and download
\* it, they have the same destination for the same file (so that, when none
\* skips an existing file, one's written paths include the other's), and the
\* Link is in the cache (a set: one entry per Link) exactly if one of its
\* tasks has succeeded; a task that looks after another's save finds the Link
\* and skips it.
C16_DuplicateLinkRace ==
    /\ [](\A i \in Tasks :
            Missed(i) =>
              /\ Link(i) \in url_cache <=>
                    \E j \in Tasks : Link(j) = Link(i) /\ task[j].status = "Succeeded"
              /\ \A j \in Tasks :
                    Link(j) = Link(i) =>
                      /\ (/\ task[i].pc = "dl" /\ task[j].pc = "dl"
                          /\ task[i].index = task[j].index) => Dest(i) = Dest(j)
                      /\ ~args.skip_existing =>
                            \/ task[i].wrote \subseteq task[j].wrote
                            \/ task[j].wrote \subseteq task[i].wrote)
    /\ [][\A i \in Tasks :
            (task[i].pc = "check" /\ task'[i].pc # "check" /\ Link(i) \in url_cache)
               => task'[i].status = "Skipped"]_vars

\* Both tasks of one Link missed it in the cache, downloaded it to the same
\* path and saved it.
C16_Witness ==
    /\ RunDone
    /\ Len(tiktok_links) = 2 /\ Link(1) = Link(2)
    /\ \A i \in Tasks : Missed(i) /\ task[i].status = "Succeeded"
    /\ task[1].wrote = task[2].wrote /\ task[1].wrote # {}
    /\ url_cache = {Link(1)}

\* A complete line of errors.txt: '<link> - <error message>' and the newline.
CompleteLine(line) ==
    /\ Len(line) = 4
    /\ \E i \in Tasks : line[1] = Link(i)
    /\ line[2] = " - "
    /\ line[3] # ""
    /\ line[4] = "\n"

\* C17: errors.txt only grows, by one whole line per failure logged: every
\* line is complete, a Link has as many lines as tasks of it have Failed, and
\* a step leaves the lines written before it as they were.
C17_ErrorLogAppendOnly ==
    /\ [](/\ \A k \in DOMAIN errors_txt : CompleteLine(errors_txt[k])
          /\ \A l \in {Link(i) : i \in Tasks} :
                Cardinality(LinesOf(l)) =
                    Cardinality({i \in Tasks : Link(i) = l /\ task[i].status = "Failed"})
          /\ Len(errors_txt) = Cardinality({i \in Tasks : task[i].status = "Failed"}))
    /\ [][\/ errors_txt' = errors_txt
          \/ \E i \in Tasks :
                /\ task[i].exception # ""
                /\ errors_txt' = Append(errors_txt, ErrorLine(Link(i), task[i].exception))]_vars

\* Two threads fail at once: one has logged its line, the other is about to.
C17_Witness ==
    /\ Len(tiktok_links) = 2
    /\ task[1].pc = "ret" /\ task[1].exception # ""
    /\ task[2].status = "Failed"
    /\ errors_txt = <<ErrorLine(Link(2), Unavailable)>>

\* C18: one attempt at a Link derives its identity once: whatever the number
\* of files, it issues at most one resolution GET for a vm.tiktok.com link.
C18_IdentityDerivedOnce ==
    \A i \in Tasks : task[i].resolutions <= 1

\* The requests the tasks have in hand.
Requests == UNION {{task[i].req[k] : k \in DOMAIN task[i].req} : i \in Tasks}

\* C19: every request made for a Link is retried on a transient status or a
\* connection failure: none is given up at the first such answer, and no
\* response with a transient status is handed to the caller as a normal one.
C19_EveryRequestIsRetried ==
    \A rq \in Requests :
        /\ Resp(rq.script, 1) \in status_forcelist \cup {ConnErr} => rq.res.attempts > 1
        /\ rq.res.outcome = "response" => rq.res.status \notin status_forcelist

\* C20: an outcome is final: each entry of the input makes at most one call
\* of the download function, a task that is over never changes again, and
\* only entries that were never taken are in the queue.
C20_NoOrchestratorRetry ==
    /\ [](/\ \A i \in Tasks : task[i].calls <= 1
          /\ \A k \in DOMAIN queue : task[queue[k]].pc = "queued"
          /\ \A i \in Tasks :
                task[i].status \in {"Failed", "Succeeded", "Skipped", "Raised"}
                   => task[i].pc = "done")
    /\ [][\A i \in Tasks : task[i].pc = "done" => task'[i] = task[i]]_vars

\* A finished run in which a Link Failed, after its one call.
C20_Witness ==
    /\ RunDone
    /\ \E i \in Tasks : task[i].status = "Failed" /\ task[i].calls = 1

====
